---- MODULE Spec2Model ----
(***************************************************************************)
(* The todo feature of the NgRx example application: the action creators   *)
(* (todo.actions.ts), the reducer built with createReducer/on              *)
(* (todo.reducer.ts), the memoized selector (todo.selectors.ts), and the   *)
(* store life cycle the README describes (dispatch -> reducer -> effects). *)
(*                                                                         *)
(* JavaScript objects live in a heap and are named by references, so that  *)
(* "the same reference", "a new object" and "changed in place" are things  *)
(* the model can tell apart.  heap.states holds the TodoState objects,     *)
(* heap.arrays the Todo[] arrays; a reference is an index into them.       *)
(***************************************************************************)
EXTENDS Integers, Sequences, FiniteSets, TLC

\* ---- bounds of the exploration ----
MaxTime == 1        \* Date.now() ranges over 0..MaxTime
MaxDispatch == 3    \* number of actions dispatched into the store

\* ---- inputs ----
Contents == {"x", "y"}
Errors == {"e"}
LoadedLists ==
    { << >>,
      << [id |-> "a", content |-> "x"], [id |-> "b", content |-> "y"],
         [id |-> "a", content |-> "y"] >> }
Times == 0..MaxTime
\* the id of a todo added at time 0, and an id of the loaded todos
RemoveIds == {ToString(0), "a"}

\* JavaScript null, as held by TodoState.error
Null == "<null>"

\* the two observers: one subscribed to the store directly, one through
\* store.select(selectAllTodos)
Kinds == {"store", "select"}

\* ---- action creators (todo.actions.ts) ----
AddTodoType == "[Todo Page] Add Todo"
RemoveTodoType == "[Todo Page] Remove Todo"
LoadTodosType == "[Todo Page] Load Todos"
LoadTodosSuccessType == "[Todo API] Todo Load Success"
LoadTodosFailureType == "[Todo API] Todo Load Failure"
\* an action of another feature, which no on(...) of todoReducer names
LoginType == "[Login Page] Login"

addTodo(c) == [type |-> AddTodoType, content |-> c]
removeTodo(i) == [type |-> RemoveTodoType, id |-> i]
loadTodos == [type |-> LoadTodosType]
\* todos is the reference of the payload array
loadTodosSuccess(ts) == [type |-> LoadTodosSuccessType, todos |-> ts]
loadTodosFailure(e) == [type |-> LoadTodosFailureType, error |-> e]
login == [type |-> LoginType]

HandledTypes ==
    {AddTodoType, RemoveTodoType, LoadTodosType, LoadTodosSuccessType,
     LoadTodosFailureType}

\* ---- heap ----
\* [...items] / Array.prototype.filter: a new array object
NewArray(h, items) == [h EXCEPT !.arrays = Append(@, items)]
\* { ...state, k: v }: a new state object
NewState(h, obj) == [h EXCEPT !.states = Append(@, obj)]

\* Array.prototype.filter with the predicate todo.id !== id
RECURSIVE FilterNotId(_, _)
FilterNotId(items, id) ==
    IF items = << >> THEN << >>
    ELSE IF Head(items).id # id
         THEN << Head(items) >> \o FilterNotId(Tail(items), id)
         ELSE FilterNotId(Tail(items), id)

\* ---- the reducer (todo.reducer.ts) ----
\* Each handler takes the heap h, the reference s of the current state, the
\* action a and the clock reading t, and gives the heap afterwards and the
\* reference of the state it returns.

\* variant: Array.prototype.push on the held list, the same state returned
onAddTodoInPlace(h, s, a, t) ==
    LET st == h.states[s]
        h1 == [h EXCEPT !.arrays[st.todos] =
                   Append(@, [id |-> ToString(t), content |-> a.content])]
    IN  [heap |-> h1, ref |-> s]

\* variant: the new todo is put at the front of the list
onAddTodoPrepend(h, s, a, t) ==
    LET st == h.states[s]
        h1 == NewArray(h, << [id |-> ToString(t), content |-> a.content] >>
                          \o h.arrays[st.todos])
        h2 == NewState(h1, [st EXCEPT !.todos = Len(h1.arrays)])
    IN  [heap |-> h2, ref |-> Len(h2.states)]

onAddTodo(h, s, a, t) ==
    LET st == h.states[s]
        h1 == NewArray(h, Append(h.arrays[st.todos],
                                 [id |-> ToString(t), content |-> a.content]))
        h2 == NewState(h1, [st EXCEPT !.todos = Len(h1.arrays)])
    IN  [heap |-> h2, ref |-> Len(h2.states)]

\* Array.prototype.splice at the first index whose todo has the id
RECURSIVE RemoveFirstId(_, _)
RemoveFirstId(items, id) ==
    IF items = << >> THEN << >>
    ELSE IF Head(items).id = id THEN Tail(items)
         ELSE << Head(items) >> \o RemoveFirstId(Tail(items), id)

\* variant: only the first todo with the id is removed
onRemoveTodoFirstOnly(h, s, a, t) ==
    LET st == h.states[s]
        h1 == NewArray(h, RemoveFirstId(h.arrays[st.todos], a.id))
        h2 == NewState(h1, [st EXCEPT !.todos = Len(h1.arrays)])
    IN  [heap |-> h2, ref |-> Len(h2.states)]

onRemoveTodo(h, s, a, t) ==
    LET st == h.states[s]
        h1 == NewArray(h, FilterNotId(h.arrays[st.todos], a.id))
        h2 == NewState(h1, [st EXCEPT !.todos = Len(h1.arrays)])
    IN  [heap |-> h2, ref |-> Len(h2.states)]

\* variant: starting a load also clears the error
onLoadTodosClearsError(h, s, a, t) ==
    LET st == h.states[s]
        h1 == NewState(h, [st EXCEPT !.status = "loading", !.error = Null])
    IN  [heap |-> h1, ref |-> Len(h1.states)]

onLoadTodos(h, s, a, t) ==
    LET st == h.states[s]
        h1 == NewState(h, [st EXCEPT !.status = "loading"])
    IN  [heap |-> h1, ref |-> Len(h1.states)]

\* variant: a successful load leaves the error as it was
onLoadTodosSuccessKeepsError(h, s, a, t) ==
    LET st == h.states[s]
        h1 == NewState(h, [st EXCEPT !.todos = a.todos, !.status = "success"])
    IN  [heap |-> h1, ref |-> Len(h1.states)]

\* variant: a successful load puts the status back to 'pending'
onLoadTodosSuccessPending(h, s, a, t) ==
    LET st == h.states[s]
        h1 == NewState(h, [st EXCEPT !.todos = a.todos, !.error = Null,
                                     !.status = "pending"])
    IN  [heap |-> h1, ref |-> Len(h1.states)]

\* variant: the loaded todos are merged into the held ones
onLoadTodosSuccessMerges(h, s, a, t) ==
    LET st == h.states[s]
        h1 == NewArray(h, h.arrays[st.todos] \o h.arrays[a.todos])
        h2 == NewState(h1, [st EXCEPT !.todos = Len(h1.arrays), !.error = Null,
                                      !.status = "success"])
    IN  [heap |-> h2, ref |-> Len(h2.states)]

onLoadTodosSuccess(h, s, a, t) ==
    LET st == h.states[s]
        h1 == NewState(h, [st EXCEPT !.todos = a.todos, !.error = Null,
                                     !.status = "success"])
    IN  [heap |-> h1, ref |-> Len(h1.states)]

\* variant: a failed load records the error and leaves the status
onLoadTodosFailureKeepsStatus(h, s, a, t) ==
    LET st == h.states[s]
        h1 == NewState(h, [st EXCEPT !.error = a.error])
    IN  [heap |-> h1, ref |-> Len(h1.states)]

\* variant: a failed load empties the list
onLoadTodosFailureDropsTodos(h, s, a, t) ==
    LET st == h.states[s]
        h1 == NewArray(h, << >>)
        h2 == NewState(h1, [st EXCEPT !.todos = Len(h1.arrays),
                                      !.error = a.error, !.status = "error"])
    IN  [heap |-> h2, ref |-> Len(h2.states)]

onLoadTodosFailure(h, s, a, t) ==
    LET st == h.states[s]
        h1 == NewState(h, [st EXCEPT !.error = a.error, !.status = "error"])
    IN  [heap |-> h1, ref |-> Len(h1.states)]

\* variant: an action no handler names gives a copy of the state
todoReducerCopiesOnUnknown(h, s, a, t) ==
    CASE a.type = AddTodoType -> onAddTodo(h, s, a, t)
      [] a.type = RemoveTodoType -> onRemoveTodo(h, s, a, t)
      [] a.type = LoadTodosType -> onLoadTodos(h, s, a, t)
      [] a.type = LoadTodosSuccessType -> onLoadTodosSuccess(h, s, a, t)
      [] a.type = LoadTodosFailureType -> onLoadTodosFailure(h, s, a, t)
      [] OTHER -> LET h1 == NewState(h, h.states[s])
                  IN  [heap |-> h1, ref |-> Len(h1.states)]

\* createReducer: the handler bound to the action's type, or the input state
todoReducer(h, s, a, t) ==
    CASE a.type = AddTodoType -> onAddTodo(h, s, a, t)
      [] a.type = RemoveTodoType -> onRemoveTodo(h, s, a, t)
      [] a.type = LoadTodosType -> onLoadTodos(h, s, a, t)
      [] a.type = LoadTodosSuccessType -> onLoadTodosSuccess(h, s, a, t)
      [] a.type = LoadTodosFailureType -> onLoadTodosFailure(h, s, a, t)
      [] OTHER -> [heap |-> h, ref |-> s]

\* the heap at start-up: initialState and its empty todos array
InitialHeap ==
    [states |-> << [todos |-> 1, error |-> Null, status |-> "pending"] >>,
     arrays |-> << << >> >>]
initialState == 1

\* ---- the selector (todo.selectors.ts) ----
\* the application state the store hands to a selector: one slice, todos
AppState(s) == [todos |-> s]

selectTodos(appState) == appState.todos

\* the projector of selectAllTodos: (state: TodoState) => state.todos
projector(h, s) == h.states[s].todos

\* variant: the projector runs on every call
selectAllTodosUnmemoized(m, h, appState) ==
    LET arg == selectTodos(appState)
        res == projector(h, arg)
    IN  [memo |-> [set |-> TRUE, lastArguments |-> arg, lastResult |-> res],
         result |-> res, ran |-> TRUE]

\* variant: once filled, the memo cell is never checked against the argument
selectAllTodosStale(m, h, appState) ==
    LET arg == selectTodos(appState) IN
    IF m.set
    THEN [memo |-> m, result |-> m.lastResult, ran |-> FALSE]
    ELSE LET res == projector(h, arg)
         IN  [memo |-> [set |-> TRUE, lastArguments |-> arg,
                        lastResult |-> res],
              result |-> res, ran |-> TRUE]

\* createSelector(selectTodos, projector): m is the memo cell (the last
\* argument and the last result).  Gives the memo cell afterwards, the value
\* returned, and whether the projector ran.
selectAllTodos(m, h, appState) ==
    LET arg == selectTodos(appState) IN
    IF m.set /\ m.lastArguments = arg
    THEN [memo |-> m, result |-> m.lastResult, ran |-> FALSE]
    ELSE LET res == projector(h, arg)
         IN  [memo |-> [set |-> TRUE, lastArguments |-> arg,
                        lastResult |-> res],
              result |-> res, ran |-> TRUE]

\* ---- state ----
VARIABLES
    now,        \* the clock Date.now() reads
    heap,       \* the objects allocated so far
    store,      \* reference of the store's current TodoState
    actions,    \* the actions reduced so far, in order
    history,    \* the states the store has held, in order
    last,       \* the last reducer call: its action, its input, its time
    effects,    \* the load effect's tasks in flight
    memo,       \* the memo cell of selectAllTodos
    projected,  \* the projector's invocations so far: argument and result
    selected,   \* the last selectAllTodos call: argument, result, cache hit
    replay,     \* a second store, fed the same actions again
    subs,       \* the subscribers, in registration order
    pending,    \* the subscribers still to notify in the current round
    queue,      \* the dispatches waiting for the current round to end
    calls       \* the actions passed to dispatch so far, in call order

vars ==
    << now, heap, store, actions, history, last, effects, memo, projected,
       selected, replay, subs, pending, queue, calls >>

\* the contents of state object s in heap h, todos array included
Snapshot(h, s) ==
    [ref |-> s, todosRef |-> h.states[s].todos,
     todos |-> h.arrays[h.states[s].todos],
     error |-> h.states[s].error, status |-> h.states[s].status]

Init ==
    /\ now = 0
    /\ heap = InitialHeap
    /\ store = initialState
    /\ actions = << >>
    /\ history = << initialState >>
    /\ last = [action |-> [type |-> "@ngrx/store/init"], by |-> "init",
               trigger |-> 0,
               input |-> Snapshot(InitialHeap, initialState), at |-> 0]
    /\ effects = << >>
    /\ memo = [set |-> FALSE, lastArguments |-> 0, lastResult |-> 0]
    /\ projected = << >>
    /\ selected = [arg |-> 0, result |-> 0, hit |-> FALSE]
    /\ replay = [on |-> FALSE, ref |-> initialState, pos |-> 0]
    /\ subs = << >>
    /\ pending = << >>
    /\ queue = << >>
    /\ calls = << >>

\* time passes
Tick ==
    /\ now < MaxTime
    /\ now' = now + 1
    /\ UNCHANGED << heap, store, actions, history, last, effects, memo,
                    projected, selected, replay, subs, pending, queue,
                    calls >>

\* sequence q without its k-th element
Without(q, k) == SubSeq(q, 1, k - 1) \o SubSeq(q, k + 1, Len(q))

\* the load effect's task started by a loadTodos: what it saw of the store,
\* and which action started it
EffectTask(status, n) == [observed |-> status, trigger |-> n]

\* variant: the round starts at the second active subscriber
ActiveButFirst(ss) ==
    LET act == SelectSeq([i \in 1..Len(ss) |-> i], LAMBDA i : ss[i].active)
    IN  IF act = << >> THEN << >> ELSE Tail(act)

\* the subscribers to notify in a round: the active ones, in registration
\* order, as they are when the round starts
Active(ss) == SelectSeq([i \in 1..Len(ss) |-> i], LAMBDA i : ss[i].active)

\* the store neither notifies nor has a dispatch waiting
Idle == pending = << >> /\ queue = << >>

\* variant: the effects get the action before the reducer has run
ReduceEffectsFirst(h, a, by, trig, eff) ==
    /\ LET r == todoReducer(h, store, a, now) IN
        /\ heap' = r.heap
        /\ store' = r.ref
        /\ history' = Append(history, r.ref)
        /\ effects' =
             IF a.type = LoadTodosType
             THEN Append(eff, EffectTask(h.states[store].status,
                                         Len(actions) + 1))
             ELSE eff
    /\ actions' = Append(actions, a)
    /\ last' = [action |-> a, by |-> by, trigger |-> trig,
                input |-> Snapshot(h, store), at |-> now]
    /\ pending' = Active(subs)

\* One transition of the store: the reducer runs on the current state, the
\* store holds what it returns, then the effects get the action and a round
\* of notifications starts.  h is the heap in which the action was created,
\* trig the loadTodos whose effect task dispatched it (0: none), eff the
\* tasks in flight.
Reduce(h, a, by, trig, eff) ==
    /\ LET r == todoReducer(h, store, a, now) IN
        /\ heap' = r.heap
        /\ store' = r.ref
        /\ history' = Append(history, r.ref)
        /\ effects' =
             IF a.type = LoadTodosType
             THEN Append(eff, EffectTask(r.heap.states[r.ref].status,
                                         Len(actions) + 1))
             ELSE eff
    /\ actions' = Append(actions, a)
    /\ last' = [action |-> a, by |-> by, trigger |-> trig,
                input |-> Snapshot(h, store), at |-> now]
    /\ pending' = Active(subs)

\* store.dispatch(a) on an idle store.  k is the effect task that dispatches
\* the action (0: none, the action comes from a component).
Dispatch(h, a, by, k) ==
    /\ ~replay.on
    /\ Idle
    /\ Len(actions) < MaxDispatch
    /\ Reduce(h, a, by, IF k = 0 THEN 0 ELSE effects[k].trigger,
              IF k = 0 THEN effects ELSE Without(effects, k))
    /\ calls' = Append(calls, a)
    /\ UNCHANGED << now, memo, projected, selected, replay, subs, queue >>

DispatchAddTodo == \E c \in Contents : Dispatch(heap, addTodo(c), "user", 0)
DispatchRemoveTodo ==
    \E i \in RemoveIds : Dispatch(heap, removeTodo(i), "user", 0)
DispatchLoadTodos == Dispatch(heap, loadTodos, "user", 0)
DispatchLoadTodosSuccess ==
    \E ts \in LoadedLists :
        LET h == NewArray(heap, ts)
        IN  Dispatch(h, loadTodosSuccess(Len(h.arrays)), "user", 0)
DispatchLoadTodosFailure ==
    \E e \in Errors : Dispatch(heap, loadTodosFailure(e), "user", 0)
DispatchOther == Dispatch(heap, login, "user", 0)

\* a load task ends: the fetch gave a list
EffectSuccess ==
    \E k \in 1..Len(effects), ts \in LoadedLists :
        LET h == NewArray(heap, ts)
        IN  Dispatch(h, loadTodosSuccess(Len(h.arrays)), "effect", k)

\* a load task ends: the fetch failed
EffectFailure ==
    \E k \in 1..Len(effects), e \in Errors :
        Dispatch(heap, loadTodosFailure(e), "effect", k)

\* one call of selectAllTodos on the store's state
CallSelector ==
    LET r == selectAllTodos(memo, heap, AppState(store)) IN
        /\ memo' = r.memo
        /\ projected' =
             IF r.ran
             THEN Append(projected, [arg |-> r.memo.lastArguments,
                                     result |-> r.result])
             ELSE projected
        /\ selected' = [arg |-> selectTodos(AppState(store)),
                        result |-> r.result, hit |-> ~r.ran]

\* a component reads the todos: store.select(selectAllTodos)
Select ==
    /\ ~replay.on
    /\ CallSelector
    /\ UNCHANGED << now, heap, store, actions, history, last, effects,
                    replay, subs, pending, queue, calls >>

\* the actions reduced so far are run again from initialState, in a second
\* store
StartReplay ==
    /\ ~replay.on
    /\ replay' = [on |-> TRUE, ref |-> initialState, pos |-> 0]
    /\ UNCHANGED << now, heap, store, actions, history, last, effects, memo,
                    projected, selected, subs, pending, queue, calls >>

ReplayStep ==
    /\ replay.on
    /\ replay.pos < Len(actions)
    /\ LET r == todoReducer(heap, replay.ref, actions[replay.pos + 1], now) IN
        /\ heap' = r.heap
        /\ replay' = [replay EXCEPT !.ref = r.ref, !.pos = @ + 1]
    /\ UNCHANGED << now, store, actions, history, last, effects, memo,
                    projected, selected, subs, pending, queue, calls >>

Next ==
    \/ Tick
    \/ DispatchAddTodo
    \/ DispatchRemoveTodo
    \/ DispatchLoadTodos
    \/ DispatchLoadTodosSuccess
    \/ DispatchLoadTodosFailure
    \/ DispatchOther
    \/ EffectSuccess
    \/ EffectFailure
    \/ Select

Spec == Init /\ [][Next]_vars

ReplayNext ==
    \/ Next
    \/ StartReplay
    \/ ReplayStep

ReplaySpec == Init /\ [][ReplayNext]_vars

\* ---- subscribers and the dispatch queue ----
\* what a subscriber of kind k is given: the state, or for a subscriber
\* through store.select(selectAllTodos) the list the selector returns
Given(k) ==
    IF k = "select"
    THEN selectAllTodos(memo, heap, AppState(store)).result
    ELSE store

\* the observer of subscriber i is invoked with v; through a selector only
\* when v is not the value it was given last (distinctUntilChanged)
Emit(ss, i, v) ==
    IF ss[i].kind = "select" /\ ss[i].seen[Len(ss[i].seen)] = v
    THEN ss
    ELSE [ss EXCEPT ![i].seen = Append(@, v)]

\* the selector runs for a subscriber through a selector, not for a direct one
Projecting(k) ==
    IF k = "select" THEN CallSelector
    ELSE UNCHANGED << memo, projected, selected >>

\* store.subscribe(observer) / store.select(selectAllTodos).subscribe(observer):
\* the observer is registered and invoked at once with the current value
Subscribe ==
    /\ ~replay.on
    /\ Idle
    /\ \E k \in Kinds :
        /\ \A i \in 1..Len(subs) : subs[i].kind # k
        /\ subs' = Append(subs, [kind |-> k, active |-> TRUE,
                                 since |-> Len(actions), until |-> 0,
                                 seen |-> << Given(k) >>])
        /\ Projecting(k)
    /\ UNCHANGED << now, heap, store, actions, history, last, effects,
                    replay, pending, queue, calls >>

\* unsubscribe(handle)
Unsubscribe ==
    /\ ~replay.on
    /\ Idle
    /\ \E i \in 1..Len(subs) :
        /\ subs[i].active
        /\ subs' = [subs EXCEPT ![i].active = FALSE,
                                ![i].until = Len(actions)]
    /\ UNCHANGED << now, heap, store, actions, history, last, effects, memo,
                    projected, selected, replay, pending, queue, calls >>

\* the next subscriber of the round is given the new state
Deliver ==
    /\ ~replay.on
    /\ pending # << >>
    /\ LET i == Head(pending) IN
        /\ subs' = Emit(subs, i, Given(subs[i].kind))
        /\ Projecting(subs[i].kind)
    /\ pending' = Tail(pending)
    /\ UNCHANGED << now, replay >>

\* the actions an observer dispatches in reaction to a state
ReactActions == {addTodo(c) : c \in Contents} \cup {loadTodos}

\* variant: a dispatch made during a notification runs the reducer at once
ReentrantDispatchNested(a, by, trig) ==
    /\ LET r == todoReducer(heap, store, a, now) IN
        /\ heap' = r.heap
        /\ store' = r.ref
        /\ history' = Append(history, r.ref)
        /\ effects' =
             IF a.type = LoadTodosType
             THEN Append(effects, EffectTask(r.heap.states[r.ref].status,
                                             Len(actions) + 1))
             ELSE effects
    /\ actions' = Append(actions, a)
    /\ last' = [action |-> a, by |-> by, trigger |-> trig,
                input |-> Snapshot(heap, store), at |-> now]
    /\ calls' = Append(calls, a)
    /\ queue' = queue

\* store.dispatch(a) while the store is notifying: the action waits in the
\* queue, behind the ones already there
ReentrantDispatch(a, by, trig) ==
    /\ queue' = Append(queue, [action |-> a, by |-> by, trigger |-> trig])
    /\ calls' = Append(calls, a)
    /\ UNCHANGED << heap, store, actions, history, last, effects >>

\* a subscriber is notified and its observer does not dispatch
Notify ==
    /\ Deliver
    /\ UNCHANGED << heap, store, actions, history, last, effects, queue,
                    calls >>

\* a subscriber is notified and its observer dispatches an action
NotifyAndDispatch ==
    /\ Deliver
    /\ Len(calls) < MaxDispatch
    /\ \E a \in ReactActions : ReentrantDispatch(a, "subscriber", 0)

\* a load task fails while the store is notifying: its loadTodosFailure goes
\* through the same queue
EffectFailureWhileBusy ==
    /\ ~replay.on
    /\ ~Idle
    /\ Len(calls) < MaxDispatch
    /\ \E k \in 1..Len(effects), e \in Errors :
        /\ queue' = Append(queue, [action |-> loadTodosFailure(e),
                                   by |-> "effect",
                                   trigger |-> effects[k].trigger])
        /\ calls' = Append(calls, loadTodosFailure(e))
        /\ effects' = Without(effects, k)
    /\ UNCHANGED << now, heap, store, actions, history, last, memo,
                    projected, selected, replay, subs, pending >>

\* the round is over: the dispatch that has waited longest runs
Drain ==
    /\ ~replay.on
    /\ pending = << >>
    /\ queue # << >>
    /\ Reduce(heap, Head(queue).action, Head(queue).by, Head(queue).trigger,
              effects)
    /\ queue' = Tail(queue)
    /\ UNCHANGED << now, memo, projected, selected, replay, subs, calls >>

StoreNext ==
    \/ Subscribe
    \/ Unsubscribe
    \/ DispatchAddTodo
    \/ DispatchLoadTodos
    \/ DispatchOther
    \/ EffectSuccess
    \/ EffectFailure
    \/ Notify
    \/ NotifyAndDispatch
    \/ EffectFailureWhileBusy
    \/ Drain

StoreSpec == Init /\ [][StoreNext]_vars

\* ---- loads run to their end ----
\* Every load task in flight still has a dispatch left for its outcome.
Reserved == Len(actions) + Len(effects) <= MaxDispatch

LoadNext ==
    \/ DispatchAddTodo /\ Reserved'
    \/ DispatchRemoveTodo /\ Reserved'
    \/ DispatchLoadTodos /\ Reserved'
    \/ DispatchLoadTodosSuccess /\ Reserved'
    \/ DispatchLoadTodosFailure /\ Reserved'
    \/ DispatchOther /\ Reserved'
    \/ EffectSuccess /\ Reserved'
    \/ EffectFailure /\ Reserved'

\* the fetch of a load task ends, with a list or with an error
EffectEnds == (EffectSuccess \/ EffectFailure) /\ Reserved'

LoadSpec == Init /\ [][LoadNext]_vars /\ WF_vars(EffectEnds)

\* ---- the reducer's contract ----
\* the store's current state, by contents
Current == Snapshot(heap, store)
In == last.input
Reduced(type) == last.by # "init" /\ last.action.type = type

\* C1: an action whose type is none of the five handled ones gives back the
\* input state itself: the same reference, todos, error and status unchanged.
C1_UnhandledActionIsNoOp ==
    (last.action.type \notin HandledTypes) =>
        /\ store = In.ref
        /\ Current = In

C1_Witness ==
    /\ Reduced(LoginType)
    /\ In.status = "error"
    /\ In.todos # << >>

\* C3: addTodo({content: c}) appends exactly one todo {id, content: c} at the
\* end of todos, keeps the earlier todos in order and keeps error and status;
\* on initialState the result is a one-element list, error null, status
\* 'pending'.
C3_AddTodoAppendsOne ==
    Reduced(AddTodoType) =>
        /\ Current.todos =
             Append(In.todos,
                    [id |-> ToString(last.at), content |-> last.action.content])
        /\ Current.error = In.error
        /\ Current.status = In.status
        /\ (In.ref = initialState =>
               /\ Len(Current.todos) = 1
               /\ Current.error = Null
               /\ Current.status = "pending")

C3_Witness ==
    /\ Reduced(AddTodoType)
    /\ Len(In.todos) >= 1
    /\ In.todos[1].content # last.action.content
    /\ In.status = "loading"

\* C4: removeTodo({id: i}) gives todos without the todos whose id is i, the
\* others keeping their relative order, and keeps error and status; when no
\* todo has id i the list has the same contents as before.
Kept(items, i) == {k \in 1..Len(items) : items[k].id # i}
C4_RemoveTodoFilters ==
    Reduced(RemoveTodoType) =>
        LET keep == Kept(In.todos, last.action.id) IN
        /\ Len(Current.todos) = Cardinality(keep)
        /\ \A k \in keep :
              Current.todos[Cardinality({m \in keep : m <= k})] = In.todos[k]
        /\ Current.error = In.error
        /\ Current.status = In.status
        /\ (keep = 1..Len(In.todos) => Current.todos = In.todos)

C4_Witness ==
    /\ Reduced(RemoveTodoType)
    /\ Len(In.todos) = 3
    /\ Len(Current.todos) = 1

\* C5: loadTodos() gives status 'loading' and keeps todos and error, whatever
\* the status was.
C5_LoadTodosSetsLoading ==
    Reduced(LoadTodosType) =>
        /\ Current.status = "loading"
        /\ Current.todos = In.todos
        /\ Current.todosRef = In.todosRef
        /\ Current.error = In.error

C5_Witness ==
    /\ Reduced(LoadTodosType)
    /\ In.status = "error"
    /\ In.error \in Errors
    /\ In.todos # << >>

\* C6: loadTodosSuccess({todos: T}) gives status 'success', error null and
\* todos equal to T: the held todos are replaced, not merged.
C6_LoadSuccessReplaces ==
    Reduced(LoadTodosSuccessType) =>
        /\ Current.status = "success"
        /\ Current.error = Null
        /\ Current.todos = heap.arrays[last.action.todos]

\* a todo added while the load was in progress is gone after the success
C6_Witness ==
    /\ Reduced(LoadTodosSuccessType)
    /\ In.status = "loading"
    /\ In.todos # << >>
    /\ \A k \in 1..Len(Current.todos) : Current.todos[k] # In.todos[1]

\* C7: loadTodosFailure({error: e}) gives status 'error', error e, and todos
\* exactly as before.
C7_LoadFailureKeepsTodos ==
    Reduced(LoadTodosFailureType) =>
        /\ Current.status = "error"
        /\ Current.error = last.action.error
        /\ Current.todos = In.todos
        /\ Current.todosRef = In.todosRef

C7_Witness ==
    /\ Reduced(LoadTodosFailureType)
    /\ In.todos # << >>
    /\ In.status = "loading"
    /\ In.error # last.action.error

\* C8: the reducer never changes state in place: each of the five handled
\* actions gives a new state object, also when the contents come out the
\* same, and no object that exists (the input state and its todos list
\* among them) has other contents afterwards.
HeapFrozen ==
    /\ \A r \in 1..Len(heap.states) :
          r <= Len(heap'.states) /\ heap'.states[r] = heap.states[r]
    /\ \A r \in 1..Len(heap.arrays) :
          r <= Len(heap'.arrays) /\ heap'.arrays[r] = heap.arrays[r]
HandledReduced == actions' # actions /\ last'.action.type \in HandledTypes
C8_NeverMutatesInPlace ==
    [][HeapFrozen /\ (HandledReduced => store' # store)]_vars

\* removeTodo with an id no todo has: same contents, another object
C8_Witness ==
    /\ Reduced(RemoveTodoType)
    /\ In.todos # << >>
    /\ Current.todos = In.todos
    /\ store # In.ref
    /\ Snapshot(heap, In.ref) = In

\* ---- the selector's contract ----
ProjectorRuns(s) ==
    Cardinality({k \in 1..Len(projected) : projected[k].arg = s})

\* C9: over all selectAllTodos calls made while selectTodos gives the same
\* reference the projector runs exactly once and each call returns the
\* result of that run; a call after the reference has changed runs the
\* projector exactly once more.
C9_SelectorMemoized ==
    /\ \A s \in 1..Len(heap.states) : ProjectorRuns(s) <= 1
    /\ selected.arg # 0 =>
          /\ ProjectorRuns(selected.arg) = 1
          /\ \E k \in 1..Len(projected) :
                /\ projected[k].arg = selected.arg
                /\ projected[k].result = selected.result
    /\ Len(projected) <= Len(heap.states)

\* a call served from the memo cell after the slice had changed once, and
\* after an action the reducer does not handle
C9_Witness ==
    /\ selected.hit
    /\ selected.arg = store
    /\ Len(projected) = 2
    /\ Reduced(LoginType)

\* ---- the life cycle ----
\* C10: an action is reduced before any effect handles it: a load task sees
\* the state after its loadTodos (status 'loading'), and the
\* loadTodosSuccess or loadTodosFailure it dispatches is reduced after that
\* loadTodos, never before it.
C10_ReducerBeforeEffects ==
    /\ \A k \in 1..Len(effects) :
          /\ effects[k].observed = "loading"
          /\ effects[k].trigger \in 1..Len(actions)
          /\ actions[effects[k].trigger].type = LoadTodosType
    /\ last.by = "effect" =>
          /\ last.action.type \in {LoadTodosSuccessType, LoadTodosFailureType}
          /\ last.trigger \in 1..(Len(actions) - 1)
          /\ actions[last.trigger].type = LoadTodosType
          /\ actions[Len(actions)] = last.action

\* the second of two loads ends first, the first is still in flight
C10_Witness ==
    /\ last.by = "effect"
    /\ last.action.type = LoadTodosSuccessType
    /\ last.trigger = 2
    /\ Len(effects) = 1
    /\ effects[1].trigger = 1

\* ---- replay ----
DeepEqual(h, s1, s2) ==
    /\ h.arrays[h.states[s1].todos] = h.arrays[h.states[s2].todos]
    /\ h.states[s1].error = h.states[s2].error
    /\ h.states[s1].status = h.states[s2].status

\* C2: running the reducer over the same sequence of actions a second time
\* from initialState gives a state deep-equal to the first, the ids of the
\* todos made by addTodo included.
C2_ReplayDeepEqual ==
    (replay.on /\ replay.pos = Len(actions)) =>
        DeepEqual(heap, replay.ref, store)

\* ---- what the selector returns ----
\* C13: selectAllTodos returns the todos list of the todos slice it is given
\* (state.todos.todos); after any actions, a call on the store's state gives
\* the list of that state, never one memoized from an earlier state.
C13_SelectReturnsCurrentTodos ==
    selected.arg # 0 =>
        /\ selected.result = heap.states[selected.arg].todos
        /\ (selected.arg = store =>
               heap.arrays[selected.result] = Current.todos)

\* a second projection, whose list differs from the first one's
C13_Witness ==
    /\ selected.arg = store
    /\ ~selected.hit
    /\ Len(projected) = 2
    /\ heap.arrays[projected[1].result] # heap.arrays[selected.result]
    /\ selected.result = Current.todosRef

\* ---- invariants of the reachable states ----
LoadTypes == {LoadTodosType, LoadTodosSuccessType, LoadTodosFailureType}
Statuses == {"pending", "loading", "error", "success"}

\* C15: status 'pending' or 'success' implies error is null.
C15_NoErrorWhenPendingOrSuccess ==
    Current.status \in {"pending", "success"} => Current.error = Null

\* a load succeeds after one that failed
C15_Witness ==
    /\ Reduced(LoadTodosSuccessType)
    /\ In.error \in Errors
    /\ Current.status = "success"

\* C16 as stated: status 'loading' implies error is null.
C16_NoErrorWhileLoading ==
    Current.status = "loading" => Current.error = Null

\* the error a failed load has left: that of the latest loadTodosFailure, if
\* no loadTodosSuccess came after it
RECURSIVE LeftError(_)
LeftError(log) ==
    IF log = << >> THEN Null
    ELSE LET a == log[Len(log)] IN
         IF a.type = LoadTodosFailureType THEN a.error
         ELSE IF a.type = LoadTodosSuccessType THEN Null
         ELSE LeftError(SubSeq(log, 1, Len(log) - 1))

\* C16 amended: while status is 'loading', error is null unless a load has
\* failed and none has succeeded since; then error is still that failure's
\* error.
C16_LoadingKeepsLeftError ==
    Current.status = "loading" => Current.error = LeftError(actions)

C16_Witness ==
    /\ Reduced(LoadTodosType)
    /\ Current.status = "loading"
    /\ Current.error \in Errors
    /\ LeftError(actions) \in Errors

\* C17: after addTodo and removeTodo actions only, no two todos share an id.
OnlyAddRemove ==
    \A k \in 1..Len(actions) :
        actions[k].type \in {AddTodoType, RemoveTodoType}
UniqueIds(items) ==
    \A j, k \in 1..Len(items) : items[j].id = items[k].id => j = k
C17_UniqueIds == OnlyAddRemove => UniqueIds(Current.todos)

\* C18: addTodo followed by removeTodo with the id of the todo just added
\* gives back the todos, error and status held before the addTodo.
StateAfter(n) == Snapshot(heap, history[n + 1])
C18_AddRemoveRoundTrip ==
    LET n == Len(actions) IN
    (/\ n >= 2
     /\ actions[n - 1].type = AddTodoType
     /\ actions[n].type = RemoveTodoType
     /\ actions[n].id =
          StateAfter(n - 1).todos[Len(StateAfter(n - 1).todos)].id)
    => /\ Current.todos = StateAfter(n - 2).todos
       /\ Current.error = StateAfter(n - 2).error
       /\ Current.status = StateAfter(n - 2).status

\* C19: status is one of the four values, and once a loadTodos,
\* loadTodosSuccess or loadTodosFailure has been reduced it is not 'pending'.
LoadReduced == \E k \in 1..Len(actions) : actions[k].type \in LoadTypes
C19_PendingOnlyBeforeFirstLoad ==
    /\ Current.status \in Statuses
    /\ LoadReduced => Current.status # "pending"
    /\ ~LoadReduced => Current.status = "pending"

\* a load succeeded, then todos were added and removed
C19_Witness ==
    /\ Len(actions) = 3
    /\ actions[1].type = LoadTodosSuccessType
    /\ actions[2].type = AddTodoType
    /\ Reduced(RemoveTodoType)
    /\ Current.status = "success"

\* ---- every load ends ----
InFlight(n) == \E k \in 1..Len(effects) : effects[k].trigger = n
Ended(n) ==
    /\ last.by = "effect"
    /\ last.trigger = n
    /\ last.action.type \in {LoadTodosSuccessType, LoadTodosFailureType}

QueueActions == [k \in 1..Len(queue) |-> queue[k].action]
Waiting(i) == \E k \in 1..Len(pending) : pending[k] = i

\* the place in history of the last state subscriber i is to have been given
Upto(i) ==
    IF ~subs[i].active THEN subs[i].until + 1
    ELSE IF Waiting(i) THEN Len(history) - 1
    ELSE Len(history)

\* the todos list of the n-th state the store has held
TodosAt(n) == heap.states[history[n]].todos

\* a sequence without the elements equal to their predecessor
RECURSIVE Distinct(_)
Distinct(q) ==
    IF Len(q) <= 1 THEN q
    ELSE LET front == Distinct(SubSeq(q, 1, Len(q) - 1)) IN
         IF q[Len(q)] = q[Len(q) - 1] THEN front
         ELSE Append(front, q[Len(q)])

\* what subscriber i is to have been given so far, in order
Expected(i) ==
    LET from == subs[i].since + 1
        n == Upto(i) - subs[i].since
    IN  IF subs[i].kind = "select"
        THEN Distinct([j \in 1..n |-> TodosAt(from + j - 1)])
        ELSE [j \in 1..n |-> history[from + j - 1]]

\* C11: a dispatch made while the store is notifying waits in FIFO order
\* until the round is over, so the transitions form one sequence: the
\* actions are reduced in the order of their dispatch calls, no reducer run
\* falls inside a round, and each subscriber is given the states in the
\* order they were applied.
C11_OneSequenceOfTransitions ==
    /\ calls = actions \o QueueActions
    /\ \A i \in 1..Len(subs) : subs[i].seen = Expected(i)
    /\ \A k \in 1..Len(pending) : subs[pending[k]].active

\* two dispatches made during one round wait, the subscriber's first
C11_Witness ==
    /\ pending = << >>
    /\ Len(queue) = 2
    /\ queue[1].by = "subscriber"
    /\ queue[2].by = "effect"
    /\ Len(subs) = 2

\* the value subscriber i is given when it subscribes
FirstGiven(i) ==
    IF subs[i].kind = "select" THEN TodosAt(subs[i].since + 1)
    ELSE history[subs[i].since + 1]

\* the dispatches subscriber i has been subscribed for and notified of
Notified(i) == Upto(i) - (subs[i].since + 1)

\* C12 as stated: a subscriber, direct or through a selector, is invoked
\* once on subscribing, with the current state (the initial state before any
\* dispatch), and once more on every later dispatch until unsubscribed.
C12_InvokedOnEveryDispatch ==
    \A i \in 1..Len(subs) :
        /\ subs[i].seen[1] = FirstGiven(i)
        /\ Len(subs[i].seen) = 1 + Notified(i)

\* the dispatches, among those, that gave another todos list
Changes(i) ==
    Cardinality({n \in (subs[i].since + 2)..Upto(i) :
                    TodosAt(n) # TodosAt(n - 1)})

\* C12 amended: a subscriber is invoked once on subscribing, with the
\* current state (the initial state before any dispatch); a direct one once
\* more on every later dispatch, one through a selector once more on every
\* later dispatch that changes the selected value, until unsubscribed.
C12_InvokedOnSubscribeAndChange ==
    \A i \in 1..Len(subs) :
        /\ subs[i].seen[1] = FirstGiven(i)
        /\ subs[i].since = 0 =>
              subs[i].seen[1] = IF subs[i].kind = "select"
                                THEN InitialHeap.states[initialState].todos
                                ELSE initialState
        /\ Len(subs[i].seen) =
              1 + (IF subs[i].kind = "select" THEN Changes(i)
                   ELSE Notified(i))

\* a direct subscriber and one through the selector, both from the start;
\* three dispatches, one of which changed the todos list
C12_Witness ==
    /\ Idle
    /\ Len(actions) = 3
    /\ \E i, j \in 1..Len(subs) :
        /\ subs[i].kind = "store" /\ subs[i].since = 0 /\ subs[i].active
        /\ Len(subs[i].seen) = 4
        /\ subs[i].seen[3] = subs[i].seen[4]
        /\ subs[j].kind = "select" /\ subs[j].since = 0 /\ subs[j].active
        /\ Len(subs[j].seen) = 2

====
